---- MODULE Spec2Model ----
(***************************************************************************)
(* Model of SortedList<T> (src/src/lib.rs): a vector of sorted blocks with *)
(* a binary search over the blocks' last elements.  Indexes are 0-based as *)
(* in the source; At(s, i) reads position i of a sequence.                  *)
(***************************************************************************)
EXTENDS Integers, Sequences, FiniteSets, TLC

\* ---- bounds of the model ----
MaxVal == 2
MaxLen == 6
MaxBlockSize == 4
MaxN == 3
MaxBlocks == 4

Values == 0..MaxVal
BlockSizes == 0..MaxBlockSize

VARIABLES data, block_size, panicked, op, arg, ret, expect, out, input, next,
          hit, repair, pos, loc

vars == <<data, block_size, panicked, op, arg, ret, expect, out, input, next,
          hit, repair, pos, loc>>

\* ---- helpers ----
At(s, i) == s[i + 1]

Panic == 0 - 1

\* Ord::cmp on the element type
cmp(a, b) == IF a < b THEN "Less" ELSE IF a = b THEN "Equal" ELSE "Greater"

\* Outcomes of evaluating `len() - 1` and get_unchecked on an empty block:
\* overflow panic (checked build) or a comparison against whatever the
\* out-of-range read finds (unchecked build).
UBOutcomes == {"panic", "Less", "Equal", "Greater"}

RECURSIVE Flatten(_)
Flatten(d) == IF Len(d) = 0 THEN <<>> ELSE Head(d) \o Flatten(Tail(d))

\* iter(): the blocks, flattened in order
iter(d) == Flatten(d)

IsNonDecreasing(s) == \A i \in 1..(Len(s) - 1) : s[i] <= s[i + 1]

Elems(s) == {s[i] : i \in 1..Len(s)}

\* Vec::insert(index, element) and Vec::remove(index), 0-based
VecInsert(s, i, e) == SubSeq(s, 1, i) \o <<e>> \o SubSeq(s, i + 1, Len(s))
VecRemove(s, i) == SubSeq(s, 1, i) \o SubSeq(s, i + 2, Len(s))

\* ---- slice::binary_search as called on one block ----
RECURSIVE binary_search_loop(_, _, _, _)
binary_search_loop(b, v, base, size) ==
  IF size > 1
  THEN LET half == size \div 2
           mid == base + half
           c == cmp(At(b, mid), v)
       IN binary_search_loop(b, v, IF c = "Greater" THEN base ELSE mid, size - half)
  ELSE LET c == cmp(At(b, base), v)
       IN IF c = "Equal"
          THEN [found |-> TRUE, idx |-> base]
          ELSE [found |-> FALSE, idx |-> base + (IF c = "Less" THEN 1 ELSE 0)]

binary_search(b, v) ==
  IF Len(b) = 0 THEN [found |-> FALSE, idx |-> 0]
  ELSE binary_search_loop(b, v, 0, Len(b))

\* ---- block_index ----
\* value.cmp(last element of block i); self.data[i] panics when i is out of
\* range, and on an empty block the outcome is ub
probe(d, i, value, ub) ==
  IF i >= Len(d) THEN "panic"
  ELSE IF Len(At(d, i)) = 0 THEN ub
  ELSE cmp(value, At(At(d, i), Len(At(d, i)) - 1))

\* variant: the loop also moves base on an equal last element
RECURSIVE block_index_loop_ge(_, _, _, _, _, _, _)
block_index_loop_ge(d, value, ub, base, size, iters, probes) ==
  IF size > 1
  THEN LET half == size \div 2
           mid == base + half
           c == probe(d, mid, value, ub)
       IN IF c = "panic"
          THEN [idx |-> Panic, iters |-> iters + 1, probes |-> probes \cup {mid}]
          ELSE block_index_loop_ge(d, value, ub, IF c # "Less" THEN mid ELSE base,
                                   size - half, iters + 1, probes \cup {mid})
  ELSE LET c == probe(d, base, value, ub)
           idx == IF c = "panic" THEN Panic
                  ELSE IF c = "Equal" THEN base
                  ELSE base + (IF c = "Greater" THEN 1 ELSE 0)
       IN [idx |-> idx, iters |-> iters, probes |-> probes \cup {base}]

\* variant: the loop shrinks size by one instead of by half
RECURSIVE block_index_loop_linear(_, _, _, _, _, _, _)
block_index_loop_linear(d, value, ub, base, size, iters, probes) ==
  IF size > 1
  THEN LET half == size \div 2
           mid == base + half
           c == probe(d, mid, value, ub)
       IN IF c = "panic"
          THEN [idx |-> Panic, iters |-> iters + 1, probes |-> probes \cup {mid}]
          ELSE block_index_loop_linear(d, value, ub, IF c = "Greater" THEN mid ELSE base,
                                       size - 1, iters + 1, probes \cup {mid})
  ELSE LET c == probe(d, base, value, ub)
           idx == IF c = "panic" THEN Panic
                  ELSE IF c = "Equal" THEN base
                  ELSE base + (IF c = "Greater" THEN 1 ELSE 0)
       IN [idx |-> idx, iters |-> iters, probes |-> probes \cup {base}]

\* the loop and the final comparison; iters counts the loop's iterations and
\* probes collects every block index read
RECURSIVE block_index_loop(_, _, _, _, _, _, _)
block_index_loop(d, value, ub, base, size, iters, probes) ==
  IF size > 1
  THEN LET half == size \div 2
           mid == base + half
           c == probe(d, mid, value, ub)
       IN IF c = "panic"
          THEN [idx |-> Panic, iters |-> iters + 1, probes |-> probes \cup {mid}]
          ELSE block_index_loop(d, value, ub, IF c = "Greater" THEN mid ELSE base,
                                size - half, iters + 1, probes \cup {mid})
  ELSE LET c == probe(d, base, value, ub)
           idx == IF c = "panic" THEN Panic
                  ELSE IF c = "Equal" THEN base
                  ELSE base + (IF c = "Greater" THEN 1 ELSE 0)
       IN [idx |-> idx, iters |-> iters, probes |-> probes \cup {base}]

NoRun == [idx |-> 0, iters |-> 0, probes |-> {}]

block_index_run(d, value, ub) ==
  IF Len(d) = 0 THEN NoRun ELSE block_index_loop(d, value, ub, 0, Len(d), 0, {})

block_index(d, value, ub) == block_index_run(d, value, ub).idx

\* ---- indexes_for / contains ----
indexes_for(d, value, ub) ==
  LET bi == block_index(d, value, ub)
  IN IF bi = Panic THEN [panic |-> TRUE, some |-> FALSE, block |-> 0, elem |-> 0]
     ELSE IF bi >= Len(d) THEN [panic |-> FALSE, some |-> FALSE, block |-> 0, elem |-> 0]
     ELSE LET r == binary_search(At(d, bi), value)
          IN [panic |-> FALSE, some |-> r.found, block |-> bi, elem |-> r.idx]

contains(d, value, ub) ==
  LET bi == block_index(d, value, ub)
  IN IF bi = Panic THEN [panic |-> TRUE, ret |-> FALSE]
     ELSE IF bi >= Len(d) THEN [panic |-> FALSE, ret |-> FALSE]
     ELSE [panic |-> FALSE, ret |-> binary_search(At(d, bi), value).found]

\* ---- insert ----
SetAt(d, i, b) == [d EXCEPT ![i + 1] = b]

\* variant: the capacity test is one element late
is_full_late(b, bs) == Len(b) = bs + 1

\* the capacity test of insert: the target block already holds block_size elements
is_full(b, bs) == Len(b) = bs

\* variant: the new block is inserted in front of the split block
rebalance_before(d, bi) ==
  LET blk == At(d, bi)
      mid == Len(blk) \div 2
      new_vec == SubSeq(blk, mid + 1, Len(blk))
  IN VecInsert(SetAt(d, bi, SubSeq(blk, 1, mid)), bi, new_vec)

\* split block block_index at len / 2; the upper half becomes a new block
\* inserted right after it
rebalance(d, bi) ==
  LET blk == At(d, bi)
      mid == Len(blk) \div 2
      new_vec == SubSeq(blk, mid + 1, Len(blk))
  IN VecInsert(SetAt(d, bi, SubSeq(blk, 1, mid)), bi + 1, new_vec)

\* after a split: does the element go to the new right-hand block ?
goes_right(b, element) == At(b, Len(b) - 1) <= element

\* number of elements in the blocks in front of block tb
RECURSIVE Offset(_, _)
Offset(d, tb) == IF tb = 0 THEN 0 ELSE Len(At(d, tb - 1)) + Offset(d, tb - 1)

\* binary search in the target block, then Vec::insert at that position;
\* block is the block located before any split, pos the index of the new
\* element in iteration order
place(d, tb, element, located_block) ==
  LET target_position == binary_search(At(d, tb), element).idx
  IN [data |-> SetAt(d, tb, VecInsert(At(d, tb), target_position, element)),
      panic |-> FALSE, block |-> located_block,
      pos |-> Offset(d, tb) + target_position]

insert(d, bs, element, ub) ==
  LET located == block_index(d, element, ub)
  IN IF located = Panic THEN [data |-> d, panic |-> TRUE, block |-> Panic, pos |-> Panic]
     ELSE IF located = Len(d) /\ located = 0
       THEN [data |-> Append(d, <<element>>), panic |-> FALSE, block |-> Panic, pos |-> 0]
     ELSE LET target_block == IF located = Len(d) THEN located - 1 ELSE located
          IN IF is_full(At(d, target_block), bs)
             THEN LET d2 == rebalance(d, target_block)
                  IN IF Len(At(d2, target_block)) = 0
                     THEN \* last().unwrap() on an empty block
                          [data |-> d2, panic |-> TRUE, block |-> target_block, pos |-> Panic]
                     ELSE place(d2,
                                IF goes_right(At(d2, target_block), element)
                                  THEN target_block + 1 ELSE target_block,
                                element, target_block)
             ELSE place(d, target_block, element, target_block)

\* ---- remove ----
\* variant: the repair threshold is one element too low
underflows_late(bi, block_len, bs) == bi > 0 /\ block_len + 1 < bs \div 2

\* variant: the repair skips the block at index 1 as well
underflows_skip(bi, block_len, bs) == bi > 1 /\ block_len < bs \div 2

\* variant: every block behind the first is repaired, whatever its length
underflows_any(bi, block_len, bs) == bi > 0

\* the repair test of remove
underflows(bi, block_len, bs) == bi > 0 /\ block_len < bs \div 2

\* variant: the moved elements are put behind the elements of the current block
redispatch_back(prev, blk, target_size) ==
  <<SubSeq(prev, 1, target_size), blk \o SubSeq(prev, target_size + 1, Len(prev))>>

\* hard case: the tail of the previous block, from target_size on, moves in
\* front of the elements of the current block
redispatch(prev, blk, target_size) ==
  <<SubSeq(prev, 1, target_size), SubSeq(prev, target_size + 1, Len(prev)) \o blk>>

\* variant: the current block is put in front of the previous one
fuse_front(prev, blk) == blk \o prev

\* easy case: the current block is appended at the end of the previous one
fuse(prev, blk) == prev \o blk

\* block is the block the element was found in, repair the branch taken
remove(d, bs, value, ub) ==
  LET ix == indexes_for(d, value, ub)
  IN IF ix.panic
       THEN [data |-> d, ret |-> FALSE, panic |-> TRUE, block |-> Panic, repair |-> "none"]
     ELSE IF ~ix.some
       THEN [data |-> d, ret |-> FALSE, panic |-> FALSE, block |-> Panic, repair |-> "none"]
     ELSE LET bi == ix.block
              d1 == SetAt(d, bi, VecRemove(At(d, bi), ix.elem))
              block_len == Len(At(d1, bi))
          IN IF underflows(bi, block_len, bs)
             THEN LET prev == At(d1, bi - 1)
                      cumulated_size == Len(prev) + block_len
                  IN IF cumulated_size <= bs
                     THEN [data |-> SetAt(VecRemove(d1, bi), bi - 1, fuse(prev, At(d1, bi))),
                           ret |-> TRUE, panic |-> FALSE, block |-> bi, repair |-> "easy"]
                     ELSE LET target_size == cumulated_size \div 2
                          IN IF target_size > Len(prev) \/ block_len = 0
                             THEN [data |-> d1, ret |-> FALSE, panic |-> TRUE,
                                   block |-> bi, repair |-> "hard"]
                             ELSE LET r == redispatch(prev, At(d1, bi), target_size)
                                  IN [data |-> SetAt(SetAt(d1, bi - 1, r[1]), bi, r[2]),
                                      ret |-> TRUE, panic |-> FALSE,
                                      block |-> bi, repair |-> "hard"]
             ELSE [data |-> d1, ret |-> TRUE, panic |-> FALSE, block |-> bi, repair |-> "none"]

\* ---- the state machine ----
\* expect records what the contents before the call say about arg (was it
\* stored ?); out is what the last iter() yielded; input/next are the script
\* of the round-trip scenario (empty in the general specification); hit is
\* the block insert or remove located, repair the repair branch remove took,
\* pos the place of the inserted element in iteration order, loc the last run
\* of the locator scenario.
Held(d, v) == v \in Elems(Flatten(d))

\* the outcomes that can matter in state d: without an empty block no
\* out-of-range read happens and the outcome is never looked at
Outcomes(d) == IF \E i \in 1..Len(d) : Len(d[i]) = 0 THEN UBOutcomes ELSE {"panic"}

\* new(block_size): no blocks
InitGhost ==
  /\ panicked = FALSE
  /\ op = "new"
  /\ arg = 0
  /\ ret = FALSE
  /\ expect = FALSE
  /\ out = <<>>
  /\ hit = Panic
  /\ repair = "none"
  /\ pos = Panic
  /\ loc = NoRun

InitList ==
  /\ block_size \in BlockSizes
  /\ data = <<>>
  /\ InitGhost

Init ==
  /\ InitList
  /\ input = <<>>
  /\ next = 0

Insert(e) ==
  /\ ~panicked
  /\ Len(Flatten(data)) < MaxLen
  /\ \E ub \in Outcomes(data) :
       \E r \in {insert(data, block_size, e, ub)} :
          /\ data' = r.data
          /\ panicked' = r.panic
          /\ hit' = r.block
          /\ pos' = r.pos
  /\ repair' = "none"
  /\ op' = "insert"
  /\ arg' = e
  /\ ret' = FALSE
  /\ expect' = Held(data, e)
  /\ out' = <<>>
  /\ UNCHANGED <<block_size, input, next, loc>>

Remove(v) ==
  /\ ~panicked
  /\ \E ub \in Outcomes(data) :
       \E r \in {remove(data, block_size, v, ub)} :
          /\ data' = r.data
          /\ panicked' = r.panic
          /\ ret' = r.ret
          /\ hit' = r.block
          /\ repair' = r.repair
  /\ pos' = Panic
  /\ expect' = Held(data, v)
  /\ op' = "remove"
  /\ arg' = v
  /\ out' = <<>>
  /\ UNCHANGED <<block_size, input, next, loc>>

Contains(v) ==
  /\ ~panicked
  /\ \E ub \in Outcomes(data) :
       \E r \in {contains(data, v, ub)} :
          /\ panicked' = r.panic
          /\ ret' = r.ret
  /\ expect' = Held(data, v)
  /\ op' = "contains"
  /\ arg' = v
  /\ out' = <<>>
  /\ hit' = Panic
  /\ repair' = "none"
  /\ pos' = Panic
  /\ UNCHANGED <<data, block_size, input, next, loc>>

Iter ==
  /\ ~panicked
  /\ out' = iter(data)
  /\ op' = "iter"
  /\ arg' = 0
  /\ ret' = FALSE
  /\ expect' = FALSE
  /\ hit' = Panic
  /\ repair' = "none"
  /\ pos' = Panic
  /\ UNCHANGED <<data, block_size, panicked, input, next, loc>>

Next ==
  \/ \E e \in Values : Insert(e)
  \/ \E v \in Values : Remove(v)
  \/ \E v \in Values : Contains(v)
  \/ Iter

Spec == Init /\ [][Next]_vars

\* ---- the round-trip scenario: insert a permutation of 0..N-1 ----
Perms(n) == {p \in [1..n -> 0..(n - 1)] : \A i, j \in 1..n : p[i] = p[j] => i = j}

InitRoundTrip ==
  /\ InitList
  /\ \E n \in 0..MaxN : input \in Perms(n)
  /\ next = 0

InsertNext ==
  /\ ~panicked
  /\ next < Len(input)
  /\ \E ub \in Outcomes(data) :
       \E r \in {insert(data, block_size, input[next + 1], ub)} :
          /\ data' = r.data
          /\ panicked' = r.panic
          /\ hit' = r.block
          /\ pos' = r.pos
  /\ repair' = "none"
  /\ next' = next + 1
  /\ op' = "insert"
  /\ arg' = input[next + 1]
  /\ ret' = FALSE
  /\ expect' = Held(data, input[next + 1])
  /\ out' = <<>>
  /\ UNCHANGED <<block_size, input, loc>>

NextRoundTrip ==
  \/ InsertNext
  \/ Iter

SpecRoundTrip == InitRoundTrip /\ [][NextRoundTrip]_vars

\* ---- the locator scenario: block_index on a given block sequence ----
\* blocks of one or two elements, sorted
SampleBlocks ==
  {<<v>> : v \in Values}
    \cup {<<p[1], p[2]>> : p \in {q \in Values \X Values : q[1] <= q[2]}}

\* all blocks non-empty and the blocks' last elements non-decreasing
LocatorPre(d) ==
  /\ \A i \in 1..Len(d) : Len(d[i]) > 0
  /\ \A i \in 1..(Len(d) - 1) : d[i][Len(d[i])] <= d[i + 1][Len(d[i + 1])]

InitLocate ==
  /\ InitGhost
  /\ block_size = 2
  /\ input = <<>>
  /\ next = 0
  /\ \E n \in 0..MaxBlocks :
       \E d \in [1..n -> SampleBlocks] :
         /\ LocatorPre(d)
         /\ data = d

Locate(v) ==
  /\ loc' = block_index_run(data, v, "panic")
  /\ op' = "block_index"
  /\ arg' = v
  /\ UNCHANGED <<data, block_size, panicked, ret, expect, out, input, next,
                 hit, repair, pos>>

NextLocate == \E v \in Values : Locate(v)

SpecLocate == InitLocate /\ [][NextLocate]_vars

\* ---- properties ----
TypeOK ==
  /\ block_size \in BlockSizes
  /\ panicked \in BOOLEAN
  /\ op \in {"new", "insert", "remove", "contains", "iter", "block_index"}
  /\ repair \in {"none", "easy", "hard"}
  /\ \A i \in 1..Len(data) : \A j \in 1..Len(data[i]) : data[i][j] \in Values

\* an empty block can only be the first one (the locator's loop never probes
\* index 0, so at most the final probe reads an empty block)
EmptyOnlyFirst ==
  (~panicked /\ block_size >= 2) => \A i \in 2..Len(data) : Len(data[i]) > 0

\* e added to the sorted sequence s, and one occurrence of v taken out of s
SortedInsert(s, e) == VecInsert(s, Cardinality({i \in 1..Len(s) : s[i] <= e}), e)
RemoveOne(s, v) == VecRemove(s, (CHOOSE i \in 1..Len(s) : s[i] = v) - 1)

\* C1: with a positive block_size every insert adds its element to the sorted
\* contents yielded by iter(), every remove returns true exactly when the
\* contents held the value and then takes one occurrence out, and nothing else
\* changes the contents (so iter() is the sorted reference multiset and its
\* length is inserts minus successful removals).
C1_MultisetRefinement ==
  [][block_size > 0 =>
       /\ (op' = "insert") =>
            (~panicked' /\ iter(data') = SortedInsert(iter(data), arg'))
       /\ (op' = "remove") =>
            /\ ~panicked'
            /\ ret' = Held(data, arg')
            /\ iter(data') = IF Held(data, arg') THEN RemoveOne(iter(data), arg')
                                                  ELSE iter(data)]_vars

\* C2: contains(v) returns true exactly when v is stored (inserted more often
\* than removed), and returns.
C2_ContainsCorrect ==
  (block_size > 0 /\ op = "contains") => (~panicked /\ ret = expect)

\* C3: iter() is non-decreasing: every block is sorted ascending and the last
\* element of a block is <= the first element of the next block.
C3_IterNonDecreasing ==
  /\ IsNonDecreasing(iter(data))
  /\ \A i \in 1..Len(data) : IsNonDecreasing(data[i])
  /\ \A i \in 1..(Len(data) - 1) :
       (Len(data[i]) > 0 /\ Len(data[i + 1]) > 0)
         => data[i][Len(data[i])] <= data[i + 1][1]

\* C4: remove(v) of a value that is not stored returns false, leaves every
\* block as it was and does not panic.
C4_RemoveAbsentNoEffect ==
  [][(block_size > 0 /\ op' = "remove" /\ ~Held(data, arg'))
       => (~panicked' /\ ret' = FALSE /\ data' = data)]_vars

\* C5: with a positive block_size insert(e) runs to completion without a
\* panic and leaves e stored.
C5_InsertTotal ==
  (block_size > 0 /\ op = "insert") => (~panicked /\ Held(data, arg))

\* C6: with a positive block_size, after every operation that returned, no
\* block is empty.
C6_NoEmptyBlock ==
  (block_size > 0 /\ ~panicked) => \A i \in 1..Len(data) : Len(data[i]) > 0

\* C7: with a positive block_size no block holds more than block_size
\* elements.
C7_BlockSizeBound ==
  block_size > 0 => \A i \in 1..Len(data) : Len(data[i]) <= block_size

C7_Witness ==
  /\ ~panicked
  /\ op = "insert"
  /\ block_size >= 2
  /\ Len(data) >= 2
  /\ \E i \in 1..Len(data) : Len(data[i]) = block_size

\* C8: for i < j every element of block i is strictly less than every element
\* of block j (max(block i) < min(block j)).
C8_StrictBlockOrder ==
  block_size > 0 => \A i, j \in 1..Len(data) :
    i < j => \A a \in Elems(data[i]) : \A b \in Elems(data[j]) : a < b

\* C9 as stated: every block but the last holds at least block_size / 2
\* elements.
C9_NonLastHalfFull ==
  (block_size > 0 /\ ~panicked) => \A i \in 1..(Len(data) - 1) : Len(data[i]) >= block_size \div 2

\* C9 amended: every block that is neither the first nor the last holds at
\* least block_size / 2 elements.
C9_InnerHalfFull ==
  ~panicked => \A i \in 2..(Len(data) - 1) : Len(data[i]) >= block_size \div 2

C9_Witness ==
  /\ ~panicked
  /\ op = "remove" /\ ret
  /\ block_size >= 2
  /\ Len(data) >= 3
  /\ Len(data[1]) < block_size \div 2

\* C10: with a positive block_size, inserting any permutation of 0..N-1 into
\* a fresh list completes and iter() then yields 0, 1, ..., N-1.
C10_RoundTrip ==
  block_size > 0 =>
    /\ ~panicked
    /\ (next = Len(input)) => iter(data) = [i \in 1..Len(input) |-> i - 1]

\* C11: a list constructed with block_size 0 never accepts an insert.
C11_ZeroRejected ==
  ~(block_size = 0 /\ op = "insert" /\ ~panicked)

\* the smallest block index i with v <= last(blocks[i]), or the number of
\* blocks when there is none
SmallestBlock(d, v) ==
  LET fits == {i \in 0..(Len(d) - 1) : v <= At(At(d, i), Len(At(d, i)) - 1)}
  IN IF fits = {} THEN Len(d) ELSE CHOOSE i \in fits : \A j \in fits : i <= j

\* C12: on non-empty blocks with non-decreasing last elements block_index
\* returns the smallest i with value <= last(blocks[i]), the number of blocks
\* when the value is greater than every last element, and 0 for zero blocks.
C12_LocateSmallest ==
  (op = "block_index" /\ LocatorPre(data)) => loc.idx = SmallestBlock(data, arg)

C12_Witness ==
  /\ op = "block_index"
  /\ Len(data) >= 3
  /\ loc.idx >= 1
  /\ loc.idx + 1 < Len(data)
  /\ At(At(data, loc.idx), Len(At(data, loc.idx)) - 1) = arg
  /\ At(At(data, loc.idx + 1), Len(At(data, loc.idx + 1)) - 1) = arg

\* C13: when remove takes the hard case on block i (0-based hit), block i-1
\* ends with c/2 elements and block i with c - c/2, where c is the combined
\* size after the removal; block i-1 followed by block i reads as before (the
\* moved elements are the tail of block i-1, in order, in front of block i);
\* the number of blocks and every other block are unchanged.
C13_HardCase ==
  [][(op' = "remove" /\ repair' = "hard") =>
       LET i == hit' + 1
           c == Len(data[i - 1]) + Len(data[i]) - 1
       IN /\ ~panicked' /\ ret'
          /\ Len(data') = Len(data)
          /\ Len(data'[i - 1]) = c \div 2
          /\ Len(data'[i]) = c - c \div 2
          /\ \E k \in 1..Len(data[i]) :
               /\ data[i][k] = arg'
               /\ data'[i - 1] \o data'[i] = data[i - 1] \o VecRemove(data[i], k - 1)
          /\ \A j \in 1..Len(data) : (j # i /\ j # i - 1) => data'[j] = data[j]]_vars

C13_Witness ==
  op = "remove" /\ repair = "hard" /\ ret /\ ~panicked

\* C14: when remove takes the easy case on block i (0-based hit), block i is
\* dropped, block i-1 is its former elements followed by what was left of
\* block i, the number of blocks goes down by one and every other block is
\* unchanged.
C14_EasyCase ==
  [][(op' = "remove" /\ repair' = "easy") =>
       LET i == hit' + 1
       IN /\ ~panicked' /\ ret'
          /\ Len(data') = Len(data) - 1
          /\ \E k \in 1..Len(data[i]) :
               /\ data[i][k] = arg'
               /\ data'[i - 1] = data[i - 1] \o VecRemove(data[i], k - 1)
          /\ \A j \in 1..(i - 2) : data'[j] = data[j]
          /\ \A j \in (i + 1)..Len(data) : data'[j - 1] = data[j]]_vars

C14_Witness ==
  /\ op = "remove" /\ repair = "easy" /\ ret /\ ~panicked
  /\ block_size >= 4
  /\ hit >= 1
  /\ Len(data[hit]) >= 2

\* C15: with a positive block_size, whenever remove enters the hard case the
\* under-filled block still has an element, target_size is at most the left
\* neighbour's length, moved_size is at least 1, and the block's new length
\* block_len + moved_size is at most block_size.
C15_HardCasePre ==
  [][(block_size > 0 /\ op' = "remove" /\ repair' = "hard") =>
       LET i == hit' + 1
           block_len == Len(data[i]) - 1
           prev_len == Len(data[i - 1])
           target_size == (prev_len + block_len) \div 2
           moved_size == prev_len - target_size
       IN /\ block_len >= 1
          /\ target_size <= prev_len
          /\ moved_size >= 1
          /\ block_len + moved_size <= block_size
          /\ ~panicked']_vars

C15_Witness ==
  /\ op = "remove" /\ repair = "hard"
  /\ block_size >= 4
  /\ Len(data[hit + 1]) >= 2
  /\ Len(data[hit + 1]) <= block_size

\* b2 is b with e inserted somewhere
IsInsertOf(b2, b, e) == \E k \in 0..Len(b) : b2 = VecInsert(b, k, e)

\* C16: an insert adds exactly one block if and only if there was no block or
\* the located target block (0-based hit) held exactly block_size elements;
\* otherwise the number of blocks is unchanged.  On a split the new block
\* sits right behind the split block and holds its elements from len/2 on
\* (one of the two halves then receives the element).
C16_SplitIff ==
  [][(op' = "insert") =>
       LET grew == Len(data') = Len(data) + 1
           full == hit' # Panic /\ Len(data[hit' + 1]) = block_size
       IN /\ Len(data') = Len(data) \/ grew
          /\ grew <=> (Len(data) = 0 \/ full)
          /\ (Len(data) > 0 /\ grew) =>
               LET t == hit' + 1
                   mid == Len(data[t]) \div 2
                   lo == SubSeq(data[t], 1, mid)
                   hi == SubSeq(data[t], mid + 1, Len(data[t]))
               IN /\ \A j \in 1..(t - 1) : data'[j] = data[j]
                  /\ \A j \in (t + 1)..Len(data) : data'[j + 1] = data[j]
                  /\ \/ data'[t] = lo /\ data'[t + 1] = hi /\ panicked'
                     \/ data'[t] = lo /\ IsInsertOf(data'[t + 1], hi, arg')
                     \/ IsInsertOf(data'[t], lo, arg') /\ data'[t + 1] = hi]_vars

C16_Witness ==
  /\ op = "insert" /\ ~panicked
  /\ block_size >= 2
  /\ hit >= 0
  /\ hit + 2 <= Len(data)
  /\ Len(data[hit + 1]) + Len(data[hit + 2]) = block_size + 1

\* C17: with a positive block_size, splitting a full block yields blocks of
\* block_size/2 and block_size - block_size/2 elements, both non-empty and
\* both shorter than block_size (checked on every full block of a reachable
\* list).
C17_SplitHalves ==
  (block_size > 0 /\ ~panicked) =>
    \A i \in 0..(Len(data) - 1) :
      is_full(At(data, i), block_size) =>
        LET d2 == rebalance(data, i)
        IN /\ Len(At(d2, i)) = block_size \div 2
           /\ Len(At(d2, i + 1)) = block_size - block_size \div 2
           /\ Len(At(d2, i)) > 0 /\ Len(At(d2, i)) < block_size
           /\ Len(At(d2, i + 1)) > 0 /\ Len(At(d2, i + 1)) < block_size

\* C18: when elements equal to the inserted one were already stored, the new
\* element (at index pos of the iteration order) comes right behind all of
\* them: none of them follows it and the element in front of it is equal.
C18_InsertAfterEquals ==
  (block_size > 0 /\ op = "insert" /\ ~panicked /\ expect) =>
    /\ \A k \in 1..Len(iter(data)) : iter(data)[k] = arg => k <= pos + 1
    /\ pos >= 1
    /\ iter(data)[pos] = arg

\* C19: after every insert or remove every block at index >= 1 holds at
\* least block_size / 2 elements (only block 0 can hold fewer).
C19_TailBlocksHalfFull ==
  ~panicked => \A i \in 2..Len(data) : Len(data[i]) >= block_size \div 2

C19_Witness ==
  /\ ~panicked
  /\ op = "remove" /\ ret /\ repair = "none" /\ hit = 0
  /\ Len(data) >= 2
  /\ Len(data[1]) >= 1
  /\ Len(data[1]) < block_size \div 2

RECURSIVE CeilLog2From(_, _, _)
CeilLog2From(n, k, p) == IF p >= n THEN k ELSE CeilLog2From(n, k + 1, 2 * p)

CeilLog2(n) == CeilLog2From(n, 0, 1)

\* C20: with n >= 1 blocks the loop of block_index runs at most ceil(log2(n))
\* times and every block index it reads (each mid and the final base) is < n.
C20_LocateBounded ==
  (op = "block_index" /\ Len(data) >= 1) =>
    /\ loc.iters <= CeilLog2(Len(data))
    /\ \A i \in loc.probes : 0 <= i /\ i < Len(data)
    /\ loc.idx # Panic

C20_Witness ==
  /\ op = "block_index"
  /\ Len(data) >= 3
  /\ loc.iters = CeilLog2(Len(data))
  /\ Cardinality(loc.probes) >= 2
====
